---- MODULE Spec2Model ----
(***************************************************************************)
(* Expression graph of src/main.rs: named leaf constants (ConstVal) and    *)
(* binary operators (AddFunc, MultiplyFunc) sharing the trait Function     *)
(* {derivative_over, compute_value, has_node}.  A harness owns one tree,   *)
(* root, and calls the three trait methods on it.                          *)
(*                                                                         *)
(* f64 values are modelled by integers: every value reachable within the   *)
(* bounds is an integer far below 2^53, on which f64 +, * are exact.       *)
(***************************************************************************)
EXTENDS Integers, Sequences, FiniteSets

VARIABLES
    root,        \* the tree the harness owns (f_end in main)
    ret,         \* the last call made on root and what it returned
    nEval,       \* how many times compute_value has been called on root
    first_eval   \* the return of the first compute_value and root right after

vars == <<root, ret, nEval, first_eval>>

\* ---------------------------------------------------------------- bounds
MaxLeaves == 3
MaxEvals == 2

\* Leaves the harness may construct, as <<value, name>>: three names, two
\* leaves that share the name "A" with different values.
LeafPool == {<<2, "A">>, <<3, "A">>, <<3, "B">>, <<5, "C">>}
OpNames == {"F"}

\* ---------------------------------------------------------- constructors
ConstVal(v, name) ==
    [kind |-> "ConstVal", val |-> v, name |-> name]

AddFunc(op1, op2, name) ==
    [kind |-> "AddFunc", op1 |-> op1, op2 |-> op2,
     val1 |-> 0, val2 |-> 0, name |-> name]

MultiplyFunc_ones(op1, op2, name) ==
    [kind |-> "MultiplyFunc", op1 |-> op1, op2 |-> op2,
     val1 |-> 1, val2 |-> 1, name |-> name, op_set |-> {}]

MultiplyFunc(op1, op2, name) ==
    [kind |-> "MultiplyFunc", op1 |-> op1, op2 |-> op2,
     val1 |-> 0, val2 |-> 0, name |-> name, op_set |-> {}]

\* --------------------------------------------------- outcomes of a call
\* derivative_over either returns an f64 or panics with
\* "Not found: <node_name>" (the UnknownVariable failure).
Ok(v) == [kind |-> "ok", val |-> v, msg |-> ""]
UnknownVariable(node_name) == [kind |-> "panic", val |-> 0, msg |-> node_name]

\* x * (callee outcome): a panic in the callee unwinds through the caller.
Scale(x, r) == IF r.kind = "panic" THEN r ELSE Ok(x * r.val)

\* ------------------------------------------------------- trait Function
RECURSIVE has_node(_, _)
RECURSIVE derivative_over(_, _)
RECURSIVE compute_value(_)

\* ---------------------------------------------- impl Function for ConstVal
ConstVal_has_node(self, node_name) ==
    self.name = node_name

ConstVal_derivative_over_any(self, node_name) ==
    Ok(1)

ConstVal_derivative_over(self, node_name) ==
    IF ConstVal_has_node(self, node_name)
    THEN Ok(1)
    ELSE UnknownVariable(node_name)

\* compute_value(&mut self): the returned pair and the node as it is left.
ConstVal_compute_value(self) ==
    [self |-> self, names |-> <<self.name>>, val |-> self.val]

\* ----------------------------------------------- impl Function for AddFunc
AddFunc_has_node_self(self, node_name) ==
    \/ self.name = node_name
    \/ has_node(self.op1, node_name)
    \/ has_node(self.op2, node_name)

AddFunc_has_node(self, node_name) ==
    has_node(self.op1, node_name) \/ has_node(self.op2, node_name)

AddFunc_derivative_over_cached(self, node_name) ==
    IF has_node(self.op1, node_name)
    THEN Scale(self.val2, derivative_over(self.op1, node_name))
    ELSE IF has_node(self.op2, node_name)
    THEN Scale(self.val1, derivative_over(self.op2, node_name))
    ELSE UnknownVariable(node_name)

AddFunc_derivative_over_both(self, node_name) ==
    IF has_node(self.op1, node_name) /\ has_node(self.op2, node_name)
    THEN Ok(derivative_over(self.op1, node_name).val
            + derivative_over(self.op2, node_name).val)
    ELSE IF has_node(self.op1, node_name)
    THEN Scale(1, derivative_over(self.op1, node_name))
    ELSE IF has_node(self.op2, node_name)
    THEN Scale(1, derivative_over(self.op2, node_name))
    ELSE UnknownVariable(node_name)

AddFunc_derivative_over(self, node_name) ==
    IF has_node(self.op1, node_name)
    THEN Scale(1, derivative_over(self.op1, node_name))
    ELSE IF has_node(self.op2, node_name)
    THEN Scale(1, derivative_over(self.op2, node_name))
    ELSE UnknownVariable(node_name)

AddFunc_compute_value_accum(self) ==
    LET r1 == compute_value(self.op1)
        r2 == compute_value(self.op2)
    IN  [self |-> [self EXCEPT !.op1 = r1.self, !.op2 = r2.self,
                               !.val1 = self.val1 + r1.val,
                               !.val2 = self.val2 + r2.val],
         names |-> r1.names \o r2.names,
         val |-> r1.val + r2.val]

AddFunc_compute_value(self) ==
    LET r1 == compute_value(self.op1)
        r2 == compute_value(self.op2)
    IN  [self |-> [self EXCEPT !.op1 = r1.self, !.op2 = r2.self,
                               !.val1 = r1.val, !.val2 = r2.val],
         names |-> r1.names \o r2.names,
         val |-> r1.val + r2.val]

\* ------------------------------------------ impl Function for MultiplyFunc
MultiplyFunc_has_node(self, node_name) ==
    has_node(self.op1, node_name) \/ has_node(self.op2, node_name)

MultiplyFunc_derivative_over_own(self, node_name) ==
    IF has_node(self.op1, node_name)
    THEN Scale(self.val1, derivative_over(self.op1, node_name))
    ELSE IF has_node(self.op2, node_name)
    THEN Scale(self.val2, derivative_over(self.op2, node_name))
    ELSE UnknownVariable(node_name)

MultiplyFunc_derivative_over_default(self, node_name) ==
    IF has_node(self.op1, node_name)
    THEN Scale(self.val2, derivative_over(self.op1, node_name))
    ELSE IF has_node(self.op2, node_name)
    THEN Scale(self.val1, derivative_over(self.op2, node_name))
    ELSE Ok(0)

MultiplyFunc_derivative_over(self, node_name) ==
    IF has_node(self.op1, node_name)
    THEN Scale(self.val2, derivative_over(self.op1, node_name))
    ELSE IF has_node(self.op2, node_name)
    THEN Scale(self.val1, derivative_over(self.op2, node_name))
    ELSE UnknownVariable(node_name)

MultiplyFunc_compute_value_sum(self) ==
    LET r1 == compute_value(self.op1)
        r2 == compute_value(self.op2)
    IN  [self |-> [self EXCEPT !.op1 = r1.self, !.op2 = r2.self,
                               !.val1 = r1.val, !.val2 = r2.val],
         names |-> r1.names \o r2.names,
         val |-> r1.val + r2.val]

MultiplyFunc_compute_value_swap(self) ==
    LET r1 == compute_value(self.op1)
        r2 == compute_value(self.op2)
    IN  [self |-> [self EXCEPT !.op1 = r1.self, !.op2 = r2.self,
                               !.val1 = r2.val, !.val2 = r1.val],
         names |-> r1.names \o r2.names,
         val |-> r1.val * r2.val]

MultiplyFunc_compute_value(self) ==
    LET r1 == compute_value(self.op1)
        r2 == compute_value(self.op2)
        after == [self EXCEPT !.op1 = r1.self, !.op2 = r2.self,
                              !.val1 = r1.val, !.val2 = r2.val]
    IN  [self |-> after,
         names |-> r1.names \o r2.names,
         val |-> after.val1 * after.val2]

\* ------------------------------------ dispatch on the implementing type
has_node(self, node_name) ==
    CASE self.kind = "ConstVal" -> ConstVal_has_node(self, node_name)
      [] self.kind = "AddFunc" -> AddFunc_has_node(self, node_name)
      [] self.kind = "MultiplyFunc" -> MultiplyFunc_has_node(self, node_name)

derivative_over(self, node_name) ==
    CASE self.kind = "ConstVal" -> ConstVal_derivative_over(self, node_name)
      [] self.kind = "AddFunc" -> AddFunc_derivative_over(self, node_name)
      [] self.kind = "MultiplyFunc" ->
           MultiplyFunc_derivative_over(self, node_name)

compute_value(self) ==
    CASE self.kind = "ConstVal" -> ConstVal_compute_value(self)
      [] self.kind = "AddFunc" -> AddFunc_compute_value(self)
      [] self.kind = "MultiplyFunc" -> MultiplyFunc_compute_value(self)

\* ------------------------------------------------------------- main()
a == ConstVal(10, "A")
b == ConstVal(5, "B")
c == ConstVal(20, "C")
d == ConstVal(25, "D")
f1 == AddFunc(a, b, "A+B")
f2 == MultiplyFunc(f1, c, "(A+B)C")
f_end == MultiplyFunc(f2, d, "(A+B)CD")

\* ------------------------------------------------------------ harness
\* Every tree the constructors can build with exactly k leaves.
RECURSIVE TreesOf(_)
TreesOf(k) ==
    IF k = 1
    THEN {ConstVal(l[1], l[2]) : l \in LeafPool}
    ELSE UNION {
           UNION { {AddFunc(l, r, nm), MultiplyFunc(l, r, nm)} :
                     l \in TreesOf(i), r \in TreesOf(k - i), nm \in OpNames }
           : i \in 1..(k - 1) }

Trees == UNION {TreesOf(k) : k \in 1..MaxLeaves}

\* Names a caller may ask about: the leaf names, the operator names, and
\* "Z", which no node carries.
QueryNames == {"A", "B", "C", "D", "F", "A+B", "Z"}

NoRet == [op |-> "none"]

\* The harness owns one tree: any tree of at most MaxLeaves leaves, or the
\* tree main() builds.  Nothing has been called on it yet.
Init ==
    /\ root \in Trees \cup {f_end}
    /\ ret = NoRet
    /\ nEval = 0
    /\ first_eval = NoRet

CallComputeValue ==
    /\ nEval < MaxEvals
    /\ LET r == compute_value(root)
       IN  /\ root' = r.self
           /\ ret' = [op |-> "compute_value",
                      out |-> [names |-> r.names, val |-> r.val]]
           /\ first_eval' =
                 IF nEval = 0
                 THEN [op |-> "compute_value",
                       out |-> [names |-> r.names, val |-> r.val],
                       root |-> r.self]
                 ELSE first_eval
    /\ nEval' = nEval + 1

CallDerivativeOver(node_name) ==
    /\ ret' = [op |-> "derivative_over", arg |-> node_name,
               out |-> derivative_over(root, node_name)]
    /\ UNCHANGED <<root, nEval, first_eval>>

CallHasNode(node_name) ==
    /\ ret' = [op |-> "has_node", arg |-> node_name,
               out |-> has_node(root, node_name)]
    /\ UNCHANGED <<root, nEval, first_eval>>

Next ==
    \/ CallComputeValue
    \/ \E node_name \in QueryNames : CallDerivativeOver(node_name)
    \/ \E node_name \in QueryNames : CallHasNode(node_name)

Spec == Init /\ [][Next]_vars

\* ------------------------------------------------- vocabulary of the claims
\* Every node of the subtree rooted at node, node included.
RECURSIVE SubNodes(_)
SubNodes(node) ==
    IF node.kind = "ConstVal"
    THEN {node}
    ELSE {node} \cup SubNodes(node.op1) \cup SubNodes(node.op2)

\* The names of the leaves of the subtree rooted at node.
LeafNameSet(node) ==
    {l.name : l \in {s \in SubNodes(node) : s.kind = "ConstVal"}}

\* The names carried by the operator nodes of the subtree.
OpNameSet(node) ==
    {o.name : o \in {s \in SubNodes(node) : s.kind # "ConstVal"}}

\* The value of the expression, by arithmetic on the leaf values alone.
RECURSIVE Value(_)
Value(node) ==
    CASE node.kind = "ConstVal" -> node.val
      [] node.kind = "AddFunc" -> Value(node.op1) + Value(node.op2)
      [] node.kind = "MultiplyFunc" -> Value(node.op1) * Value(node.op2)

\* The leaf names in visiting order, left subtree first.
RECURSIVE NameSeq(_)
NameSeq(node) ==
    IF node.kind = "ConstVal"
    THEN <<node.name>>
    ELSE NameSeq(node.op1) \o NameSeq(node.op2)

\* The node as its constructors left it: every cached value zero.
RECURSIVE Constructed(_)
Constructed(node) ==
    IF node.kind = "ConstVal"
    THEN node
    ELSE [node EXCEPT !.op1 = Constructed(node.op1),
                      !.op2 = Constructed(node.op2),
                      !.val1 = 0, !.val2 = 0]

\* For each leaf named n below node, whether a MultiplyFunc lies on the
\* path from node to that leaf (under tells whether one lies above node).
RECURSIVE UnderProduct(_, _, _)
UnderProduct(node, n, under) ==
    IF node.kind = "ConstVal"
    THEN IF node.name = n THEN {under} ELSE {}
    ELSE LET u == under \/ node.kind = "MultiplyFunc"
         IN  UnderProduct(node.op1, n, u) \cup UnderProduct(node.op2, n, u)

Disjoint(x, y) == LeafNameSet(x) \cap LeafNameSet(y) = {}

IsOk(r, v) == r.kind = "ok" /\ r.val = v
IsUnknownVariable(r, n) == r.kind = "panic" /\ r.msg = n

RetDerivative(n) == ret.op = "derivative_over" /\ ret.arg = n

IsOp(node) == node.kind \in {"AddFunc", "MultiplyFunc"}

\* ------------------------------------------------------------------ C1
\* C1: on the tree of main(), Fend = Product(Product(Sum(A,B), C), D) with
\* A=10, B=5, C=20, D=25, compute_value returns (["A","B","C","D"], 7500),
\* and after it derivative_over "A" returns 500 and derivative_over "D"
\* returns 300.
C1_MainExample ==
    Constructed(root) = f_end =>
      /\ ret.op = "compute_value" =>
           ret.out = [names |-> <<"A", "B", "C", "D">>, val |-> 7500]
      /\ (nEval > 0 /\ RetDerivative("A")) => ret.out = Ok(500)
      /\ (nEval > 0 /\ RetDerivative("D")) => ret.out = Ok(300)

C1_Witness ==
    /\ Constructed(root) = f_end
    /\ nEval > 0
    /\ first_eval.out = [names |-> <<"A", "B", "C", "D">>, val |-> 7500]
    /\ RetDerivative("D")
    /\ ret.out = Ok(300)
    /\ derivative_over(root, "A") = Ok(500)

\* ------------------------------------------------------------------ C2
\* C2: product rule.  Once compute_value has run, for every MultiplyFunc
\* node whose operands have disjoint leaf names, the derivative over a leaf
\* name n of op1 is value(op2) times op1's derivative over n, and over a
\* leaf name n of op2 it is value(op1) times op2's derivative over n, where
\* value(X) is what compute_value returns for X.
ProductRuleAt(p) ==
    /\ \A n \in LeafNameSet(p.op1) :
         /\ derivative_over(p.op1, n).kind = "ok"
         /\ IsOk(derivative_over(p, n),
                 compute_value(p.op2).val * derivative_over(p.op1, n).val)
    /\ \A n \in LeafNameSet(p.op2) :
         /\ derivative_over(p.op2, n).kind = "ok"
         /\ IsOk(derivative_over(p, n),
                 compute_value(p.op1).val * derivative_over(p.op2, n).val)

C2_ProductRule ==
    nEval > 0 =>
      /\ \A p \in SubNodes(root) :
           (p.kind = "MultiplyFunc" /\ Disjoint(p.op1, p.op2))
             => ProductRuleAt(p)
      /\ (/\ root.kind = "MultiplyFunc"
          /\ Disjoint(root.op1, root.op2)
          /\ ret.op = "derivative_over"
          /\ ret.arg \in LeafNameSet(root.op1))
           => IsOk(ret.out, compute_value(root.op2).val
                            * derivative_over(root.op1, ret.arg).val)
      /\ (/\ root.kind = "MultiplyFunc"
          /\ Disjoint(root.op1, root.op2)
          /\ ret.op = "derivative_over"
          /\ ret.arg \in LeafNameSet(root.op2))
           => IsOk(ret.out, compute_value(root.op1).val
                            * derivative_over(root.op2, ret.arg).val)

C2_Witness ==
    /\ nEval > 0
    /\ root.kind = "MultiplyFunc"
    /\ IsOp(root.op1)
    /\ Disjoint(root.op1, root.op2)
    /\ Value(root.op1) # Value(root.op2)
    /\ ret.op = "derivative_over"
    /\ ret.arg \in LeafNameSet(root.op1)
    /\ ret.out.kind = "ok"
    /\ ret.out.val = Value(root.op2) * derivative_over(root.op1, ret.arg).val
    /\ ret.out.val > 1

\* ------------------------------------------------------------------ C3
\* C3: sum linearity.  For every AddFunc node whose operands have disjoint
\* leaf names, the derivative over a leaf name of op1 is op1's derivative
\* and over a leaf name of op2 is op2's derivative, whatever the AddFunc
\* node's own cached val1 and val2 are.
CacheProbe == {0, 1, 7}

SumLinearAt(s) ==
    /\ \A n \in LeafNameSet(s.op1) :
         /\ derivative_over(s, n) = derivative_over(s.op1, n)
         /\ \A x, y \in CacheProbe :
              derivative_over([s EXCEPT !.val1 = x, !.val2 = y], n)
                = derivative_over(s.op1, n)
    /\ \A n \in LeafNameSet(s.op2) :
         /\ derivative_over(s, n) = derivative_over(s.op2, n)
         /\ \A x, y \in CacheProbe :
              derivative_over([s EXCEPT !.val1 = x, !.val2 = y], n)
                = derivative_over(s.op2, n)

C3_SumLinearity ==
    /\ \A s \in SubNodes(root) :
         (s.kind = "AddFunc" /\ Disjoint(s.op1, s.op2)) => SumLinearAt(s)
    /\ (/\ root.kind = "AddFunc"
        /\ Disjoint(root.op1, root.op2)
        /\ ret.op = "derivative_over"
        /\ ret.arg \in LeafNameSet(root))
         => ret.out = IF ret.arg \in LeafNameSet(root.op1)
                      THEN derivative_over(root.op1, ret.arg)
                      ELSE derivative_over(root.op2, ret.arg)

C3_Witness ==
    /\ nEval > 0
    /\ root.kind = "AddFunc"
    /\ root.op1.kind = "MultiplyFunc"
    /\ Disjoint(root.op1, root.op2)
    /\ root.val1 > 1 /\ root.val2 > 1
    /\ ret.op = "derivative_over"
    /\ ret.arg \in LeafNameSet(root.op1)
    /\ ret.out = derivative_over(root.op1, ret.arg)
    /\ ret.out.kind = "ok"
    /\ ret.out.val > 1

\* ------------------------------------------------------------------ C4
\* C4: for every node of every tree and every name Z that no leaf below
\* the node carries, derivative_over fails with UnknownVariable(Z) and
\* returns no number, before compute_value as well as after it; the caller
\* sees the failure as it was raised.
C4_UnknownVariable ==
    /\ \A s \in SubNodes(root) :
         \A z \in QueryNames \ LeafNameSet(s) :
           derivative_over(s, z) = UnknownVariable(z)
    /\ (ret.op = "derivative_over" /\ ret.arg \notin LeafNameSet(root))
         => ret.out = UnknownVariable(ret.arg)

C4_Witness ==
    /\ nEval > 0
    /\ root.kind = "MultiplyFunc"
    /\ IsOp(root.op1)
    /\ ret.op = "derivative_over"
    /\ ret.arg = "Z"
    /\ ret.arg \notin LeafNameSet(root)
    /\ IsUnknownVariable(ret.out, "Z")

\* ------------------------------------------------------------------ C5
\* C5: has_node(node, n) is true exactly when n is the name of a leaf of
\* the subtree rooted at node; it is false for every other name, the names
\* given to operator nodes included.
C5_Contains ==
    /\ \A s \in SubNodes(root) :
         /\ \A n \in QueryNames :
              has_node(s, n) <=> n \in LeafNameSet(s)
         /\ \A n \in OpNameSet(s) \ LeafNameSet(s) : ~has_node(s, n)
    /\ ret.op = "has_node" => (ret.out <=> ret.arg \in LeafNameSet(root))

C5_Witness ==
    /\ IsOp(root)
    /\ ret.op = "has_node"
    /\ ret.arg \in OpNameSet(root)
    /\ ret.arg \notin LeafNameSet(root)
    /\ ret.out = FALSE
    /\ \E n \in LeafNameSet(root.op2) : has_node(root, n)

\* ------------------------------------------------------------------ C6
\* C6: for every leaf with value v and name n, compute_value returns
\* ([n], v), derivative_over n returns 1, and derivative_over any other
\* name fails with UnknownVariable.
LeafContractAt(l) ==
    /\ compute_value(l).names = <<l.name>>
    /\ compute_value(l).val = l.val
    /\ derivative_over(l, l.name) = Ok(1)
    /\ \A m \in QueryNames \ {l.name} :
         derivative_over(l, m) = UnknownVariable(m)

C6_Leaf ==
    /\ \A l \in SubNodes(root) : l.kind = "ConstVal" => LeafContractAt(l)
    /\ root.kind = "ConstVal" =>
         /\ ret.op = "compute_value" =>
              ret.out = [names |-> <<root.name>>, val |-> root.val]
         /\ RetDerivative(root.name) => ret.out = Ok(1)
         /\ (ret.op = "derivative_over" /\ ret.arg # root.name)
              => ret.out = UnknownVariable(ret.arg)

C6_Witness ==
    /\ root.kind = "ConstVal"
    /\ first_eval # NoRet
    /\ first_eval.out = [names |-> <<root.name>>, val |-> root.val]
    /\ ret.op = "derivative_over"
    /\ ret.arg # root.name
    /\ IsUnknownVariable(ret.out, ret.arg)
    /\ derivative_over(root, root.name) = Ok(1)

\* ------------------------------------------------------------------ C7
\* C7: compute_value is idempotent.  A second compute_value on the root,
\* with any derivative_over and has_node calls in between, returns the
\* names and the value the first one returned and leaves every operator
\* node's cached values as the first one left them.
C7_EvaluateIdempotent ==
    (nEval >= 2 /\ ret.op = "compute_value") =>
      /\ ret.out = first_eval.out
      /\ root = first_eval.root

C7_Witness ==
    /\ nEval = 2
    /\ ret.op = "compute_value"
    /\ IsOp(root)
    /\ IsOp(root.op1)
    /\ root.val1 # 0
    /\ ret.out = first_eval.out
    /\ root = first_eval.root

\* ------------------------------------------------------------------ C8
\* C8: before any compute_value, derivative_over a leaf name raises no
\* error; when every leaf of that name lies below a MultiplyFunc the
\* result is 0 (the zero-initialised cached sibling value), and when every
\* leaf of that name is reached through AddFunc nodes only the result is 1.
C8_BeforeEvaluate ==
    nEval = 0 =>
      /\ \A n \in LeafNameSet(root) :
           /\ derivative_over(root, n).kind = "ok"
           /\ UnderProduct(root, n, FALSE) = {TRUE}
                => derivative_over(root, n) = Ok(0)
           /\ UnderProduct(root, n, FALSE) = {FALSE}
                => derivative_over(root, n) = Ok(1)
      /\ (ret.op = "derivative_over" /\ ret.arg \in LeafNameSet(root)) =>
           /\ ret.out.kind = "ok"
           /\ UnderProduct(root, ret.arg, FALSE) = {TRUE} => ret.out = Ok(0)
           /\ UnderProduct(root, ret.arg, FALSE) = {FALSE} => ret.out = Ok(1)

C8_Witness ==
    /\ nEval = 0
    /\ root.kind = "MultiplyFunc"
    /\ ret.op = "derivative_over"
    /\ ret.arg \in LeafNameSet(root.op1)
    /\ UnderProduct(root, ret.arg, FALSE) = {TRUE}
    /\ ret.out = Ok(0)
    /\ Value(root.op2) # 0
    /\ \E m \in LeafNameSet(root.op1) :
         UnderProduct(root.op1, m, FALSE) = {FALSE}

\* ------------------------------------------------------------------ C9
\* C9: left-biased tie-break.  When both operands of a node contain a leaf
\* named n, derivative_over n uses the left operand only: for AddFunc the
\* left operand's derivative, for MultiplyFunc the cached val2 (the right
\* operand's value once compute_value has run) times the left operand's
\* derivative; nothing is added for the right operand, so Sum(X, X) over
\* two leaves named X gives 1.
LeftBiasAt(s) ==
    \A n \in LeafNameSet(s.op1) \cap LeafNameSet(s.op2) :
      /\ s.kind = "AddFunc" =>
           derivative_over(s, n) = derivative_over(s.op1, n)
      /\ s.kind = "MultiplyFunc" =>
           /\ derivative_over(s, n)
                = Scale(s.val2, derivative_over(s.op1, n))
           /\ nEval > 0 =>
                derivative_over(s, n)
                  = Scale(Value(s.op2), derivative_over(s.op1, n))
      /\ (s.kind = "AddFunc" /\ s.op1.kind = "ConstVal"
            /\ s.op2.kind = "ConstVal") => derivative_over(s, n) = Ok(1)

C9_LeftBias ==
    /\ \A s \in SubNodes(root) : IsOp(s) => LeftBiasAt(s)
    /\ (/\ IsOp(root)
        /\ ret.op = "derivative_over"
        /\ ret.arg \in LeafNameSet(root.op1) \cap LeafNameSet(root.op2))
         => ret.out = Scale(IF root.kind = "AddFunc" THEN 1 ELSE root.val2,
                            derivative_over(root.op1, ret.arg))

C9_Witness ==
    /\ root.kind = "AddFunc"
    /\ root.op1.kind = "ConstVal"
    /\ root.op2.kind = "ConstVal"
    /\ root.op1.name = root.op2.name
    /\ root.op1.val # root.op2.val
    /\ RetDerivative(root.op1.name)
    /\ ret.out = Ok(1)

\* ----------------------------------------------------------------- C10
\* C10: cache validity.  Once compute_value has been called on the root,
\* in every later state every operator node's val1 is the value of its
\* left subtree and its val2 the value of its right subtree; a
\* derivative_over or has_node call, failing or not, changes no cached
\* value and no leaf value.
CacheValid ==
    \A s \in SubNodes(root) :
      IsOp(s) => (s.val1 = Value(s.op1) /\ s.val2 = Value(s.op2))

QueryStep == ret'.op \in {"derivative_over", "has_node"}

C10_CacheValidity ==
    /\ [](nEval > 0 => CacheValid)
    /\ [][QueryStep => root' = root]_vars

C10_Witness ==
    /\ nEval > 0
    /\ IsOp(root)
    /\ IsOp(root.op2)
    /\ root.val1 # root.val2
    /\ CacheValid
    /\ ret.op = "derivative_over"
    /\ ret.out.kind = "panic"

TypeOK == nEval \in 0..MaxEvals
====
